---- MODULE Spec2Model ----
(***************************************************************************)
(* Model of the tmago execution-and-aggregation engine:                    *)
(*   internal/runner/runner.go     Runner.Run, runSingle, runConcurrent,   *)
(*                                 makeRequest, validateResponse           *)
(*   internal/reporter/reporter.go Reporter.AddResult, calculatePercentiles*)
(*   internal/validator            Validator.Validate                      *)
(*                                                                         *)
(* The main goroutine executes Run; for a concurrent endpoint it spawns    *)
(* one worker goroutine per user and one goroutine that closes the two     *)
(* channels, and then collects.  time.Duration values are integers, a      *)
(* float64 is a record (see F64), a Go map with integer values is a bag.   *)
(***************************************************************************)
EXTENDS Integers, Sequences, FiniteSets, Bags, TLC

(***************************************************************************)
(* Bounds of the configurations and of the environment.                    *)
(***************************************************************************)
MaxUsers == 2
MaxTotal == 4
MaxRetry == 2
MaxElapsed == 2
MaxEndpoints == 2
MaxChecks == 2
MaxSamples == 20


VARIABLES
    call,         \* a call of Validator.Validate: its arguments and its result
    config,       \* Runner.config.Endpoints
    server,       \* the responses the server under test can give
    ctxDone,      \* the ctx passed to Run has been cancelled
    pc,           \* position of the main goroutine
    ep,           \* index (1-based) of the endpoint Run is processing
    result,       \* the reporter.TestResult of the endpoint in progress
    i,            \* loop counter of runSingle
    lastErr,      \* lastErr of runSingle / runConcurrent
    retErr,       \* the error runSingle / runConcurrent returned to Run
    loc,          \* runConcurrent locals: totalLatency, minLatency, ...
    requestChan,  \* chan reporter.RequestDetail
    errChan,      \* chan error
    worker,       \* the worker goroutines of runConcurrent, by userID: position,
                  \* loop counter j, error to send, time.Sleep calls made
    wg,           \* sync.WaitGroup counter
    closer,       \* position of the goroutine that closes the channels
    results,      \* Reporter.results
    issued        \* number of makeRequest calls made for this endpoint, per
                  \* worker (index 0 in the single path)

vars == <<call, config, server, ctxDone, pc, ep, result, i, lastErr, retErr, loc,
          requestChan, errChan, worker, wg, closer, results, issued>>

----------------------------------------------------------------------------
(***************************************************************************)
(* Values                                                                  *)
(***************************************************************************)

\* error values; NoError is Go's nil
NoError == ""
ErrTransport == "transport error"              \* client.Do / io.ReadAll failed
ErrRequestCanceled == "request: context canceled" \* client.Do under a cancelled ctx
ErrCtx == "context canceled"                   \* ctx.Err()

\* float64: a number in thousandths, or one of the IEEE-754 specials
FloatScale == 1000
F64(n) == [k |-> "num", v |-> n * FloatScale]
NaN == [k |-> "nan", v |-> 0]
PosInf == [k |-> "inf", v |-> 0]

\* float64(a) / float64(b) for non-negative integers a, b
F64Div(a, b) ==
    IF b = 0
    THEN IF a = 0 THEN NaN ELSE PosInf
    ELSE [k |-> "num", v |-> (a * FloatScale) \div b]

\* x * float64(n) for a float64 x and a positive integer n
F64Mul(x, n) == IF x.k = "num" THEN [k |-> "num", v |-> x.v * n] ELSE x

RECURSIVE SumSeq(_)
SumSeq(s) == IF s = <<>> THEN 0 ELSE Head(s) + SumSeq(Tail(s))

RECURSIVE Insert(_, _)
Insert(x, s) ==
    IF s = <<>> THEN <<x>>
    ELSE IF x <= Head(s) THEN <<x>> \o s
    ELSE <<Head(s)>> \o Insert(x, Tail(s))

\* sort.Slice(durations, less)
RECURSIVE SortDurations(_)
SortDurations(s) == IF s = <<>> THEN <<>> ELSE Insert(Head(s), SortDurations(Tail(s)))

\* m[key]++ on a Go map with integer values
Incr(m, key) == m (+) SetToBag({key})

\* m[key] on a Go map with integer values (0 when the key is absent)
Count(m, key) == CopiesIn(key, m)

----------------------------------------------------------------------------
(***************************************************************************)
(* internal/validator: Validator.Validate                                  *)
(***************************************************************************)

\* A value of a check (decoded from the YAML document: string or int) or of
\* a response body (decoded by json.Unmarshal into interface{}: string or
\* float64) is [t, v]: t is the dynamic type, "str", "int" or "float", v the
\* string or the number.  The numbers modelled are non-negative integers.
StrVal(s) == [t |-> "str", v |-> s]
IntVal(n) == [t |-> "int", v |-> n]
FloatVal(n) == [t |-> "float", v |-> n]

\* the decimal digits of a non-negative integer, most significant first
RECURSIVE Digits(_)
Digits(n) == IF n < 10 THEN <<n>> ELSE Append(Digits(n \div 10), n % 10)

RECURSIVE StripZeros(_)
StripZeros(ds) ==
    IF Len(ds) > 1 /\ ds[Len(ds)] = 0
    THEN StripZeros(SubSeq(ds, 1, Len(ds) - 1)) ELSE ds

RECURSIVE DigitString(_)
DigitString(ds) ==
    IF ds = <<>> THEN "" ELSE ToString(Head(ds)) \o DigitString(Tail(ds))

\* strconv's %e with the shortest digits: d[.ddd]e+XX
FormatExp(n) ==
    LET ds == Digits(n)
        ms == StripZeros(ds)
        exp == Len(ds) - 1
    IN  ToString(ms[1])
        \o (IF Len(ms) > 1 THEN "." \o DigitString(Tail(ms)) ELSE "")
        \o "e+" \o (IF exp < 10 THEN "0" ELSE "") \o ToString(exp)

\* fmt's %v of a float64 is %g with the shortest digits, which switches to
\* the exponent form when the decimal exponent is 6 or more
FormatFloat(n) == IF n < 1000000 THEN ToString(n) ELSE FormatExp(n)

\* fmt.Sprintf("%v", v): a string prints as itself, an int by its digits, a
\* float64 as FormatFloat
Sprintf(v) ==
    IF v.t = "str" THEN v.v
    ELSE IF v.t = "int" THEN ToString(v.v)
    ELSE FormatFloat(v.v)

StatusMsg(expected, got) ==
    [kind |-> "status", path |-> "", a |-> ToString(expected), b |-> ToString(got)]
TimeMsg(max, got) ==
    [kind |-> "time", path |-> "", a |-> ToString(max), b |-> ToString(got)]
UnmarshalMsg == [kind |-> "unmarshal", path |-> "", a |-> "", b |-> ""]
NotFoundMsg(path) == [kind |-> "notfound", path |-> path, a |-> "", b |-> ""]
MismatchMsg(path, expected, got) ==
    [kind |-> "mismatch", path |-> path, a |-> Sprintf(expected), b |-> Sprintf(got)]

\* variant: the interface values themselves are compared (val != check.Value):
\* equal dynamic type and equal value
ValuesDifferStrict(val, expected) == val.t # expected.t \/ val.v # expected.v

\* fmt.Sprintf("%v", val) != fmt.Sprintf("%v", check.Value)
ValuesDiffer(val, expected) == Sprintf(val) # Sprintf(expected)

\* the loop over valueChecks, appending to errs
RECURSIVE ValueCheckErrors(_, _)
ValueCheckErrors(responseData, valueChecks) ==
    IF valueChecks = <<>> THEN <<>>
    ELSE LET check == Head(valueChecks)
             rest == ValueCheckErrors(responseData, Tail(valueChecks))
         IN  IF check.Path \notin DOMAIN responseData
             THEN <<NotFoundMsg(check.Path)>> \o rest
             ELSE IF ValuesDiffer(responseData[check.Path], check.Value)
                  THEN <<MismatchMsg(check.Path, check.Value,
                                     responseData[check.Path])>> \o rest
                  ELSE rest

\* variant: a body that does not decode is checked as an empty object
ValidateIgnoreParse(statusCode, maxDuration, respStatus, body, duration, valueChecks) ==
    LET e1 == IF respStatus # statusCode
              THEN <<StatusMsg(statusCode, respStatus)>> ELSE <<>>
        e2 == IF duration > maxDuration
              THEN <<TimeMsg(maxDuration, duration)>> ELSE <<>>
        e3 == IF Len(valueChecks) > 0
              THEN ValueCheckErrors(IF body.object THEN body.data ELSE <<>>,
                                    valueChecks)
              ELSE <<>>
        errs == e1 \o e2 \o e3
    IN  [IsValid |-> Len(errs) = 0, Errors |-> errs, Duration |-> duration]

\* variant: Validate returns at the first check that fails
ValidateShortCircuit(statusCode, maxDuration, respStatus, body, duration, valueChecks) ==
    LET errs == IF respStatus # statusCode
                THEN <<StatusMsg(statusCode, respStatus)>>
                ELSE IF duration > maxDuration
                THEN <<TimeMsg(maxDuration, duration)>>
                ELSE IF Len(valueChecks) = 0 THEN <<>>
                ELSE IF ~body.object THEN <<UnmarshalMsg>>
                ELSE ValueCheckErrors(body.data, valueChecks)
    IN  [IsValid |-> Len(errs) = 0, Errors |-> errs, Duration |-> duration]

\* Validate(resp, body, duration, valueChecks) of a Validator{maxDuration,
\* statusCode}.  A body is [size, object, data]: object says whether
\* json.Unmarshal into a map succeeds, data is the decoded map.
Validate(statusCode, maxDuration, respStatus, body, duration, valueChecks) ==
    LET e1 == IF respStatus # statusCode
              THEN <<StatusMsg(statusCode, respStatus)>> ELSE <<>>
        e2 == IF duration > maxDuration
              THEN <<TimeMsg(maxDuration, duration)>> ELSE <<>>
        e3 == IF Len(valueChecks) > 0
              THEN IF ~body.object
                   THEN <<UnmarshalMsg>>
                   ELSE ValueCheckErrors(body.data, valueChecks)
              ELSE <<>>
        errs == e1 \o e2 \o e3
    IN  [IsValid |-> Len(errs) = 0, Errors |-> errs, Duration |-> duration]

\* Runner.validateResponse
validateResponse(respStatus, body, duration, endpoint) ==
    Validate(endpoint.Expect.Status, endpoint.Expect.MaxTime,
             respStatus, body, duration, endpoint.Expect.Values)

----------------------------------------------------------------------------
(***************************************************************************)
(* Configurations and the environment                                      *)
(***************************************************************************)

\* endpoint.Expect of every modelled endpoint: status 200 within 2 time
\* units, no value checks
Expectation == [Status |-> 200, MaxTime |-> 2, Values |-> <<>>]

\* config.Endpoint; Retry.Count and Concurrent.{Users, Total, Delay} are the
\* fields the runner branches on; every endpoint has a URL, a method and a
\* positive Concurrent.Delay
Endpoint(users, total, count) ==
    [Name |-> "", URL |-> "http://host/path", Method |-> "GET",
     Users |-> users, Total |-> total, Delay |-> 1,
     RetryCount |-> count, Expect |-> Expectation]

\* the loop of Config.Validate over the endpoints (config.go 78-91): the
\* first error found, nil without any
RECURSIVE ValidateEndpoints(_)
ValidateEndpoints(es) ==
    IF es = <<>> THEN NoError
    ELSE LET e == Head(es)
         IN  IF e.URL = "" THEN "missing URL"
             ELSE IF e.Method = "" THEN "missing method"
             ELSE IF e.Users > 0 /\ e.Total = 0
                  THEN "concurrent users set but total requests not specified"
             ELSE ValidateEndpoints(Tail(es))

\* Config.Validate (config.go 72-93)
ConfigValidate(c) ==
    IF Len(c) = 0 THEN "no endpoints defined" ELSE ValidateEndpoints(c)

\* config.ValueCheck
Check(path, value) == [Path |-> path, Value |-> value]

\* the endpoint e with an expectation that lists the same value check twice
TwiceChecked(e) ==
    [e EXCEPT !.Expect.Values =
        <<Check("title", StrVal("foo")), Check("title", StrVal("foo"))>>]

\* the endpoint e under the name `name`
Named(e, name) == [e EXCEPT !.Name = name]

\* the endpoints a configuration may hold: single-path endpoints with every
\* retry count, concurrent endpoints with every users/total profile (and a
\* retry policy, which runConcurrent never reads).  cmd/run.go hands the
\* loaded configuration to the runner without calling Config.Validate, so
\* users > 0 with total = 0 is among them.
Endpoints ==
    {Endpoint(0, 0, c) : c \in 0..MaxRetry}
    \cup {Endpoint(u, t, MaxRetry) : u \in 1..MaxUsers, t \in 0..MaxTotal}

\* response bodies: [size, object, data]
BodyFoo == [size |-> 3, object |-> TRUE,
            data |-> [title |-> StrVal("foo")]]
BodySlow == [size |-> 2, object |-> TRUE,
             data |-> [title |-> StrVal("bar")]]
BodyErr == [size |-> 1, object |-> FALSE, data |-> <<>>]

\* what makeRequest can return for one exchange: a response (err = nil) with
\* its status, body and elapsed time, or a transport error with the time
\* spent
Reply(status, body, duration) ==
    [err |-> NoError, StatusCode |-> status, body |-> body, duration |-> duration]
Failure(err, duration) ==
    [err |-> err, StatusCode |-> 0, body |-> BodyErr, duration |-> duration]

ServerReplies ==
    {Reply(200, BodyFoo, 1), Reply(200, BodyFoo, 2), Reply(200, BodySlow, 3),
     Reply(500, BodyErr, 3)}

\* makeRequest (runner.go 263-287) under a context that is cancelled
\* (done) or not at the moment the exchange ends: with a live context the
\* server's reply or a transport error; with a cancelled one also (started
\* before the cancellation) or only (started after it) the context's error
makeRequest(done, startedDone) ==
    IF startedDone THEN {Failure(ErrRequestCanceled, 1)}
    ELSE server \cup {Failure(ErrTransport, 3)}
         \cup (IF done THEN {Failure(ErrRequestCanceled, 1)} ELSE {})

----------------------------------------------------------------------------
(***************************************************************************)
(* reporter: RequestDetail, TestResult, AddResult                          *)
(***************************************************************************)

\* reporter.RequestDetail (Timestamp and Headers are not modelled: nothing
\* in the engine reads them)
RequestDetail(id, duration, status, success, errMsg, size, verrs) ==
    [ID |-> id, Duration |-> duration, StatusCode |-> status,
     Success |-> success, ErrorMessage |-> errMsg, ResponseSize |-> size,
     ValidationErrors |-> verrs]

NoPercentiles == [P50 |-> 0, P75 |-> 0, P90 |-> 0, P95 |-> 0, P99 |-> 0]

\* the reporter.TestResult literal of Run (runner.go 45-53)
NewResult(e) ==
    [EndpointName |-> e.Name,
     TotalRequests |-> 0, SuccessCount |-> 0, FailureCount |-> 0,
     AverageLatency |-> 0, MinLatency |-> 0, MaxLatency |-> 0,
     Percentiles |-> NoPercentiles,
     StatusCodes |-> EmptyBag, Errors |-> <<>>,
     IsConcurrent |-> FALSE, ConcurrentUsers |-> 0,
     RequestDetails |-> <<>>, BytesTransferred |-> 0,
     ResponseSizes |-> [Min |-> 0, Max |-> 0, Avg |-> 0],
     RequestsPerSecond |-> F64(0), ErrorRate |-> F64(0),
     ValidationFailures |-> EmptyBag]

\* variant: the product rounded up instead of truncated
PercentileIndexCeil(n, pct) == (n * pct + 99) \div 100

\* int(float64(n) * p) for p = pct/100: the product is within one ulp of
\* n*pct/100 and the lengths modelled are far below 2^53, so the truncation
\* is the integer quotient
PercentileIndex(n, pct) == (n * pct) \div 100

\* variant: the durations are indexed as they come, without sort.Slice
calculatePercentilesUnsorted(durations) ==
    IF Len(durations) = 0 THEN NoPercentiles
    ELSE LET n == Len(durations)
             at(pct) == durations[PercentileIndex(n, pct) + 1]
         IN  [P50 |-> at(50), P75 |-> at(75), P90 |-> at(90),
              P95 |-> at(95), P99 |-> at(99)]

\* calculatePercentiles (reporter.go 136-152); the index is 0-based in Go
calculatePercentiles(durations) ==
    IF Len(durations) = 0 THEN NoPercentiles
    ELSE LET sorted == SortDurations(durations)
             n == Len(durations)
             at(pct) == sorted[PercentileIndex(n, pct) + 1]
         IN  [P50 |-> at(50), P75 |-> at(75), P90 |-> at(90),
              P95 |-> at(95), P99 |-> at(99)]

RECURSIVE SeqMin(_)
SeqMin(s) ==
    IF Len(s) = 1 THEN s[1]
    ELSE LET m == SeqMin(Tail(s)) IN IF Head(s) < m THEN Head(s) ELSE m

\* the maxSize loop of AddResult: maxSize starts at 0
RECURSIVE SeqMax0(_)
SeqMax0(s) ==
    IF s = <<>> THEN 0
    ELSE LET m == SeqMax0(Tail(s)) IN IF Head(s) > m THEN Head(s) ELSE m

\* Reporter.AddResult (reporter.go 27-57): the result as it is appended
AddResult(r) ==
    LET details == r.RequestDetails
        durations == [k \in 1..Len(details) |-> details[k].Duration]
        sizes == [k \in 1..Len(details) |-> details[k].ResponseSize]
        withPct == [r EXCEPT !.Percentiles = calculatePercentiles(durations)]
    IN  IF Len(details) > 0
        THEN [withPct EXCEPT !.ResponseSizes =
                 [Min |-> SeqMin(sizes), Max |-> SeqMax0(sizes),
                  Avg |-> SumSeq(sizes) \div Len(details)]]
        ELSE withPct

\* Reporter.prepareChartData (reporter.go 154-172): the rates are quotients
\* of float64 values, which yield NaN or an infinity for a zero divisor
prepareChartData(rs) ==
    [k \in 1..Len(rs) |->
        [Label |-> rs[k].EndpointName,
         LatencyValue |-> rs[k].AverageLatency,
         SuccessRate |-> F64Mul(F64Div(rs[k].SuccessCount, rs[k].TotalRequests), 100),
         ErrorRate |-> F64Mul(F64Div(rs[k].FailureCount, rs[k].TotalRequests), 100),
         RPSValue |-> rs[k].RequestsPerSecond]]

\* Reporter.prepareReport (reporter.go 174-229).  SuccessRate is a quotient
\* of float64 values; GlobalStats.AverageLatency is
\* totalLatency / time.Duration(totalRequests), a quotient of int64 values:
\* with a zero divisor Go panics (integer divide by zero) and prepareReport
\* does not return
prepareReport(rs) ==
    LET totalRequests == SumSeq([k \in 1..Len(rs) |-> rs[k].TotalRequests])
        totalSuccessful == SumSeq([k \in 1..Len(rs) |-> rs[k].SuccessCount])
        totalLatency ==
            SumSeq([k \in 1..Len(rs) |-> rs[k].AverageLatency * rs[k].TotalRequests])
    IN  [panic |-> totalRequests = 0,
         TotalEndpoints |-> Len(rs),
         TotalRequests |-> totalRequests,
         SuccessRate |-> F64Mul(F64Div(totalSuccessful, totalRequests), 100),
         AverageLatency |-> IF totalRequests = 0 THEN 0
                            ELSE totalLatency \div totalRequests,
         ChartData |-> prepareChartData(rs)]

----------------------------------------------------------------------------
(***************************************************************************)
(* runner: Run, runSingle, runConcurrent                                   *)
(***************************************************************************)

endpoint == config[ep]

\* variant: the quotient rounded up instead of down
requestsPerUserCeil(e) == (e.Total + e.Users - 1) \div e.Users

\* requestsPerUser := endpoint.Concurrent.Total / endpoint.Concurrent.Users
requestsPerUser(e) == e.Total \div e.Users

\* variant: channels that buffer the requests of one user
ChanCapPerUser(e) == e.Total \div e.Users

\* variant: channels that buffer a single item
ChanCapOne(e) == IF e.Total > 0 THEN 1 ELSE 0

\* capacity of requestChan and of errChan: make(chan T, Concurrent.Total)
ChanCap(e) == e.Total

NewChan(cap) == [buf |-> <<>>, closed |-> FALSE, cap |-> cap]
NoChan == NewChan(0)

\* a send on a buffered channel proceeds when the buffer has room
CanSend(ch) == Len(ch.buf) < ch.cap
Send(ch, x) == [ch EXCEPT !.buf = Append(@, x)]

NoLocals == [totalLatency |-> 0, minLatency |-> 0, maxLatency |-> 0, totalBytes |-> 0]

\* the detail of an exchange that returned a response
\* (runner.go 106-115, 184-193)
ResponseDetail(id, out, e) ==
    LET v == validateResponse(out.StatusCode, out.body, out.duration, e)
    IN  RequestDetail(id, out.duration, out.StatusCode, v.IsValid, NoError,
                      out.body.size, v.Errors)

\* variant: the error branch falls through to the code that fills the
\* status, the size and the validation result
ErrorDetailValidated(id, out) ==
    [ResponseDetail(id, out, endpoint) EXCEPT !.ErrorMessage = out.err]

\* the detail of an exchange that ended in a transport error
\* (runner.go 98-102, 176-178)
ErrorDetail(id, out) ==
    RequestDetail(id, out.duration, 0, FALSE, out.err, 0, <<>>)

\* for _, err := range errs { ValidationFailures[err]++ }
RECURSIVE CountFailures(_, _)
CountFailures(m, errs) ==
    IF errs = <<>> THEN m ELSE CountFailures(Incr(m, Head(errs)), Tail(errs))

\* an error value is the sequence of the errors joined in it ("a; b"), nil the
\* empty one; each is its message and, for a validation failure, the
\* violations printed in it
Err(msg) == <<[msg |-> msg, errs |-> <<>>]>>
NilErr == <<>>

\* fmt.Errorf("validation failed: %v", validationResult.Errors)
ValidationFailed(errs) == <<[msg |-> "validation failed", errs |-> errs]>>

\* variant: a failed validation is counted in FailureCount only, as if
\* TotalRequests++ stood in the success branch
FoldSingleLogical(r, d) ==
    LET r1 == [r EXCEPT !.StatusCodes = Incr(@, d.StatusCode),
                        !.BytesTransferred = @ + d.ResponseSize]
        r2 == IF d.Success
              THEN [r1 EXCEPT
                      !.TotalRequests = @ + 1,
                      !.SuccessCount = @ + 1,
                      !.MinLatency = IF @ = 0 \/ d.Duration < @ THEN d.Duration ELSE @,
                      !.MaxLatency = IF d.Duration > @ THEN d.Duration ELSE @]
              ELSE [r1 EXCEPT
                      !.FailureCount = @ + 1,
                      !.ValidationFailures = CountFailures(@, d.ValidationErrors)]
    IN  [r2 EXCEPT !.RequestDetails = Append(@, d)]

\* runSingle folding the response of one attempt into result
\* (runner.go 117-136)
FoldSingle(r, d) ==
    LET r1 == [r EXCEPT !.TotalRequests = @ + 1,
                        !.StatusCodes = Incr(@, d.StatusCode),
                        !.BytesTransferred = @ + d.ResponseSize]
        r2 == IF d.Success
              THEN [r1 EXCEPT
                      !.SuccessCount = @ + 1,
                      !.MinLatency = IF @ = 0 \/ d.Duration < @ THEN d.Duration ELSE @,
                      !.MaxLatency = IF d.Duration > @ THEN d.Duration ELSE @]
              ELSE [r1 EXCEPT
                      !.FailureCount = @ + 1,
                      !.ValidationFailures = CountFailures(@, d.ValidationErrors)]
    IN  [r2 EXCEPT !.RequestDetails = Append(@, d)]

\* variant: a detail that carries a transport error is counted in
\* TotalRequests but in neither SuccessCount nor FailureCount
FoldConcurrentSkipErrors(r, d) ==
    LET r1 == [r EXCEPT !.RequestDetails = Append(@, d),
                        !.TotalRequests = @ + 1,
                        !.StatusCodes = Incr(@, d.StatusCode),
                        !.BytesTransferred = @ + d.ResponseSize]
    IN  IF d.Success
        THEN [r1 EXCEPT !.SuccessCount = @ + 1]
        ELSE IF d.ErrorMessage # NoError THEN r1
        ELSE [r1 EXCEPT !.FailureCount = @ + 1,
                        !.ValidationFailures = CountFailures(@, d.ValidationErrors)]

\* variant: a detail without a response is left out of StatusCodes
FoldConcurrentNoZero(r, d) ==
    LET r1 == [r EXCEPT !.RequestDetails = Append(@, d),
                        !.TotalRequests = @ + 1,
                        !.StatusCodes = IF d.StatusCode = 0 THEN @
                                        ELSE Incr(@, d.StatusCode),
                        !.BytesTransferred = @ + d.ResponseSize]
    IN  IF d.Success
        THEN [r1 EXCEPT !.SuccessCount = @ + 1]
        ELSE [r1 EXCEPT !.FailureCount = @ + 1,
                        !.ValidationFailures = CountFailures(@, d.ValidationErrors)]

\* the collector loop of runConcurrent folding one detail into result
\* (runner.go 217-237)
FoldConcurrent(r, d) ==
    LET r1 == [r EXCEPT !.RequestDetails = Append(@, d),
                        !.TotalRequests = @ + 1,
                        !.StatusCodes = Incr(@, d.StatusCode),
                        !.BytesTransferred = @ + d.ResponseSize]
    IN  IF d.Success
        THEN [r1 EXCEPT !.SuccessCount = @ + 1]
        ELSE [r1 EXCEPT !.FailureCount = @ + 1,
                        !.ValidationFailures = CountFailures(@, d.ValidationErrors)]

\* variant: the locals are updated for every detail, successful or not
FoldLocalsAll(l, d) ==
    [totalLatency |-> l.totalLatency + d.Duration,
     minLatency |-> IF l.minLatency = 0 \/ d.Duration < l.minLatency
                    THEN d.Duration ELSE l.minLatency,
     maxLatency |-> IF d.Duration > l.maxLatency
                    THEN d.Duration ELSE l.maxLatency,
     totalBytes |-> l.totalBytes + d.ResponseSize]

\* the collector loop updating the locals of runConcurrent (runner.go 222-231)
FoldLocals(l, d) ==
    IF d.Success
    THEN [totalLatency |-> l.totalLatency + d.Duration,
          minLatency |-> IF l.minLatency = 0 \/ d.Duration < l.minLatency
                         THEN d.Duration ELSE l.minLatency,
          maxLatency |-> IF d.Duration > l.maxLatency
                         THEN d.Duration ELSE l.maxLatency,
          totalBytes |-> l.totalBytes + d.ResponseSize]
    ELSE l

\* runner.go 240-247
Finalize(r, l) ==
    IF r.SuccessCount > 0
    THEN [r EXCEPT !.MinLatency = l.minLatency,
                   !.MaxLatency = l.maxLatency,
                   !.AverageLatency = l.totalLatency \div r.SuccessCount,
                   !.ResponseSizes =
                       [Min |-> l.totalBytes \div r.SuccessCount,
                        Max |-> l.totalBytes \div r.SuccessCount,
                        Avg |-> l.totalBytes \div r.SuccessCount]]
    ELSE r

\* the error drain of runConcurrent (runner.go 250-258); an error is the
\* sequence of the messages joined by "; "
JoinErr(last, err) ==
    IF err = NoError THEN last
    ELSE IF last = NilErr THEN Err(err) ELSE last \o Err(err)

\* Run closing an endpoint (runner.go 57-74): the error of the path is
\* appended to Errors, the rates are computed over the elapsed wall-clock
\* time, and the result is added to the reporter
CloseResult(r, err, elapsed) ==
    LET r1 == IF err # NilErr THEN [r EXCEPT !.Errors = Append(@, err)] ELSE r
    IN  [r1 EXCEPT
           !.RequestsPerSecond = F64Div(r.TotalRequests, elapsed),
           !.ErrorRate = F64Mul(F64Div(r.FailureCount, r.TotalRequests), 100)]

----------------------------------------------------------------------------
(***************************************************************************)
(* State machine                                                           *)
(***************************************************************************)

NoWorkers == [w \in {} |-> 0]

\* no Validate call is modelled on its own in the runs of the runner
NoCall == [done |-> TRUE]

\* `result` before Run has created the first one
NoResult == NewResult(Endpoint(0, 0, 0))

\* Runner after NewRunner, before Run; Run processes `endpoints` against a
\* server that answers with one of `replies`
InitWith(endpoints, replies) ==
    /\ call = NoCall
    /\ config = endpoints
    /\ server = replies
    /\ ctxDone = FALSE
    /\ pc = "run"
    /\ ep = 1
    /\ result = NoResult
    /\ i = 0
    /\ lastErr = NilErr
    /\ retErr = NilErr
    /\ loc = NoLocals
    /\ requestChan = NoChan
    /\ errChan = NoChan
    /\ worker = NoWorkers
    /\ wg = 0
    /\ closer = "idle"
    /\ results = <<>>
    /\ issued = NoWorkers

Init == \E e \in Endpoints : InitWith(<<e>>, ServerReplies)

\* the context handed to Run is cancelled by its owner
Cancel ==
    /\ ~ctxDone
    /\ pc \notin {"done", "panic"}
    /\ ctxDone' = TRUE
    /\ UNCHANGED <<call, config, server, pc, ep, result, i, lastErr, retErr, loc, requestChan,
                   errChan, worker, wg, closer, results, issued>>

\* variant: Run keeps aggregating into the result of the endpoint before
StartSingleKeepResult ==
    /\ pc = "run"
    /\ ep <= Len(config)
    /\ endpoint.Users = 0
    /\ result' = [result EXCEPT !.EndpointName = endpoint.Name,
                                !.IsConcurrent = FALSE,
                                !.ConcurrentUsers = 0,
                                !.Errors = <<>>]
    /\ i' = 0
    /\ lastErr' = NilErr
    /\ issued' = [w \in {0} |-> 0]
    /\ pc' = "single"
    /\ UNCHANGED <<call, config, server, ctxDone, ep, retErr, loc, requestChan, errChan,
                   worker, wg, closer, results>>

\* Run, loop head for a single-path endpoint (runner.go 42-53, 61-62):
\* the result is created and runSingle entered
StartSingle ==
    /\ pc = "run"
    /\ ep <= Len(config)
    /\ endpoint.Users = 0
    /\ result' = NewResult(endpoint)
    /\ i' = 0
    /\ lastErr' = NilErr
    /\ issued' = [w \in {0} |-> 0]
    /\ pc' = "single"
    /\ UNCHANGED <<call, config, server, ctxDone, ep, retErr, loc, requestChan, errChan,
                   worker, wg, closer, results>>

\* variant: the loop condition with < for <=
MoreAttemptsStrict(n, e) == n < e.RetryCount

\* for i := 0; i <= endpoint.Retry.Count; i++ (runner.go 85): the condition
MoreAttempts(n, e) == n <= e.RetryCount

\* variant: the early return is missing
StopRetryingNever(valid) == FALSE

\* if validationResult.IsValid { return nil } (runner.go 138-140)
StopRetrying(valid) == valid

\* variant: the error of an attempt is joined to those of the attempts
\* before it
lastErrJoined(last, err) == last \o err

\* lastErr = err (runner.go 99, 142): the error of an attempt replaces the
\* one of the attempt before it
lastErrOf(last, err) == err

\* runSingle, one iteration of the retry loop (runner.go 85-143) and the
\* return that follows it when it was the last one (139, 145)
SingleAttempt ==
    /\ pc = "single"
    /\ MoreAttempts(i, endpoint)
    /\ \E out \in makeRequest(ctxDone, ctxDone) :
          LET id == result.TotalRequests + 1
              d == IF out.err # NoError THEN ErrorDetail(id, out)
                   ELSE ResponseDetail(id, out, endpoint)
              err == IF out.err # NoError THEN Err(out.err)
                     ELSE IF d.Success THEN NilErr
                     ELSE ValidationFailed(d.ValidationErrors)
              last == ~MoreAttempts(i + 1, endpoint)
          IN  /\ issued' = [issued EXCEPT ![0] = @ + 1]
              /\ result' = IF out.err # NoError
                           THEN [result EXCEPT !.RequestDetails = Append(@, d)]
                           ELSE FoldSingle(result, d)
              /\ IF out.err = NoError /\ StopRetrying(d.Success)
                 THEN /\ pc' = "returned"
                      /\ retErr' = NilErr
                      /\ UNCHANGED <<i, lastErr>>
                 ELSE /\ lastErr' = lastErrOf(lastErr, err)
                      /\ i' = i + 1
                      /\ pc' = IF last THEN "returned" ELSE "single"
                      /\ retErr' = IF last THEN lastErrOf(lastErr, err) ELSE retErr
    /\ UNCHANGED <<call, config, server, ctxDone, ep, loc, requestChan, errChan, worker, wg,
                   closer, results>>

\* variant: the workers are started without wg.Add(1)
wgAddsNone(e) == 0

\* the wg.Add(1) calls of the loop that starts the workers (runner.go 157-158)
wgAdds(e) == e.Users

\* Run, loop head for a concurrent endpoint (runner.go 42-56), and
\* runConcurrent up to its collector loop (149-209): the channels are made,
\* one worker per user and the closing goroutine are started
StartConcurrent ==
    /\ pc = "run"
    /\ ep <= Len(config)
    /\ endpoint.Users > 0
    /\ result' = [NewResult(endpoint) EXCEPT !.IsConcurrent = TRUE,
                                   !.ConcurrentUsers = endpoint.Users]
    /\ requestChan' = NewChan(ChanCap(endpoint))
    /\ errChan' = NewChan(ChanCap(endpoint))
    /\ worker' = [w \in 0..(endpoint.Users - 1) |-> [pc |-> "loop", j |-> 0, err |-> NoError, slept |-> 0]]
    /\ issued' = [w \in 0..(endpoint.Users - 1) |-> 0]
    /\ wg' = wgAdds(endpoint)
    /\ closer' = "wait"
    /\ loc' = NoLocals
    /\ lastErr' = NilErr
    /\ pc' = "collect"
    /\ UNCHANGED <<call, config, server, ctxDone, ep, i, retErr, results>>

Workers == DOMAIN worker

\* defer wg.Done() of a worker that leaves its goroutine
WorkerDone(w) ==
    /\ worker' = [worker EXCEPT ![w].pc = "done"]
    /\ wg' = wg - 1

\* worker: the loop condition j < requestsPerUser fails (runner.go 161)
WorkerExit(w) ==
    /\ worker[w].pc = "loop"
    /\ worker[w].j >= requestsPerUser(endpoint)
    /\ WorkerDone(w)
    /\ UNCHANGED <<call, config, server, ctxDone, pc, ep, result, i, lastErr, retErr, loc,
                   requestChan, errChan, closer, results, issued>>

\* worker: select takes <-ctx.Done() (runner.go 162-165): the context's
\* error is sent and the goroutine returns
WorkerCancelled(w) ==
    /\ worker[w].pc = "loop"
    /\ worker[w].j < requestsPerUser(endpoint)
    /\ ctxDone
    /\ CanSend(errChan)
    /\ errChan' = Send(errChan, ErrCtx)
    /\ WorkerDone(w)
    /\ UNCHANGED <<call, config, server, ctxDone, pc, ep, result, i, lastErr, retErr, loc,
                   requestChan, closer, results, issued>>

\* variant: the worker calls makeRequest without the select on ctx.Done()
WorkerRequestUnchecked(w) ==
    /\ worker[w].pc = "loop"
    /\ worker[w].j < requestsPerUser(endpoint)
    /\ worker' = [worker EXCEPT ![w].pc = "inflight"]
    /\ issued' = [issued EXCEPT ![w] = @ + 1]
    /\ UNCHANGED <<call, config, server, ctxDone, pc, ep, result, i, lastErr, retErr, loc,
                   requestChan, errChan, wg, closer, results>>

\* worker: select takes default (runner.go 166-173): makeRequest is called
WorkerRequest(w) ==
    /\ worker[w].pc = "loop"
    /\ worker[w].j < requestsPerUser(endpoint)
    /\ ~ctxDone
    /\ worker' = [worker EXCEPT ![w].pc = "inflight"]
    /\ issued' = [issued EXCEPT ![w] = @ + 1]
    /\ UNCHANGED <<call, config, server, ctxDone, pc, ep, result, i, lastErr, retErr, loc,
                   requestChan, errChan, wg, closer, results>>

\* requestID := userID*requestsPerUser + j + 1
requestID(w, j, e) == w * requestsPerUser(e) + j + 1

\* worker: makeRequest returns a response (runner.go 173-199): the detail is
\* sent, the worker sleeps Concurrent.Delay and loops
WorkerResponse(w) ==
    /\ worker[w].pc = "inflight"
    /\ CanSend(requestChan)
    /\ \E out \in makeRequest(ctxDone, FALSE) :
          /\ out.err = NoError
          /\ requestChan' = Send(requestChan,
                 ResponseDetail(requestID(w, worker[w].j, endpoint), out, endpoint))
    /\ worker' = [worker EXCEPT
                     ![w].pc = "loop", ![w].j = @ + 1,
                     ![w].slept = IF endpoint.Delay > 0 THEN @ + 1 ELSE @]
    /\ UNCHANGED <<call, config, server, ctxDone, pc, ep, result, i, lastErr, retErr, loc,
                   errChan, wg, closer, results, issued>>

\* variant: after an error the worker sends the error only, not the detail
WorkerErrorNoDetail(w) ==
    /\ worker[w].pc = "inflight"
    /\ \E out \in makeRequest(ctxDone, FALSE) :
          /\ out.err # NoError
          /\ worker' = [worker EXCEPT ![w].pc = "senderr", ![w].err = out.err]
    /\ UNCHANGED <<call, config, server, ctxDone, pc, ep, result, i, lastErr, retErr, loc,
                   requestChan, errChan, wg, closer, results, issued>>

\* worker: makeRequest returns an error (runner.go 173-179): the detail is
\* sent on requestChan
WorkerError(w) ==
    /\ worker[w].pc = "inflight"
    /\ CanSend(requestChan)
    /\ \E out \in makeRequest(ctxDone, FALSE) :
          /\ out.err # NoError
          /\ requestChan' = Send(requestChan,
                 ErrorDetail(requestID(w, worker[w].j, endpoint), out))
          /\ worker' = [worker EXCEPT ![w].pc = "senderr", ![w].err = out.err]
    /\ UNCHANGED <<call, config, server, ctxDone, pc, ep, result, i, lastErr, retErr, loc,
                   errChan, wg, closer, results, issued>>

\* variant: the worker returns after sending the error instead of
\* continuing with its next request
WorkerSendErrReturn(w) ==
    /\ worker[w].pc = "senderr"
    /\ CanSend(errChan)
    /\ errChan' = Send(errChan, worker[w].err)
    /\ worker' = [worker EXCEPT ![w].pc = "done", ![w].j = @ + 1, ![w].err = NoError]
    /\ wg' = wg - 1
    /\ UNCHANGED <<call, config, server, ctxDone, pc, ep, result, i, lastErr, retErr, loc,
                   requestChan, closer, results, issued>>

\* worker: errChan <- err; continue (runner.go 180-181)
WorkerSendErr(w) ==
    /\ worker[w].pc = "senderr"
    /\ CanSend(errChan)
    /\ errChan' = Send(errChan, worker[w].err)
    /\ worker' = [worker EXCEPT ![w].pc = "loop", ![w].j = @ + 1, ![w].err = NoError]
    /\ UNCHANGED <<call, config, server, ctxDone, pc, ep, result, i, lastErr, retErr, loc,
                   requestChan, wg, closer, results, issued>>

\* variant: the closing goroutine closes without wg.Wait()
CloseRequestChanNoWait ==
    /\ closer = "wait"
    /\ requestChan' = [requestChan EXCEPT !.closed = TRUE]
    /\ closer' = "closeErr"
    /\ UNCHANGED <<call, config, server, ctxDone, pc, ep, result, i, lastErr, retErr, loc,
                   errChan, worker, wg, results, issued>>

\* closing goroutine: wg.Wait() returns, close(requestChan) (runner.go 206-207)
CloseRequestChan ==
    /\ closer = "wait"
    /\ wg = 0
    /\ requestChan' = [requestChan EXCEPT !.closed = TRUE]
    /\ closer' = "closeErr"
    /\ UNCHANGED <<call, config, server, ctxDone, pc, ep, result, i, lastErr, retErr, loc,
                   errChan, worker, wg, results, issued>>

\* closing goroutine: close(errChan) (runner.go 208)
CloseErrChan ==
    /\ closer = "closeErr"
    /\ errChan' = [errChan EXCEPT !.closed = TRUE]
    /\ closer' = "idle"
    /\ UNCHANGED <<call, config, server, ctxDone, pc, ep, result, i, lastErr, retErr, loc,
                   requestChan, worker, wg, results, issued>>

\* collector: one iteration of for detail := range requestChan
\* (runner.go 216-238)
Collect ==
    /\ pc = "collect"
    /\ requestChan.buf # <<>>
    /\ LET detail == Head(requestChan.buf)
       IN  /\ result' = FoldConcurrent(result, detail)
           /\ loc' = FoldLocals(loc, detail)
    /\ requestChan' = [requestChan EXCEPT !.buf = Tail(@)]
    /\ UNCHANGED <<call, config, server, ctxDone, pc, ep, i, lastErr, retErr, errChan, worker,
                   wg, closer, results, issued>>

\* collector: requestChan is closed and drained, the range loop ends and the
\* latencies are finalized (runner.go 240-249)
CollectEnd ==
    /\ pc = "collect"
    /\ requestChan.buf = <<>>
    /\ requestChan.closed
    /\ result' = Finalize(result, loc)
    /\ pc' = "drain"
    /\ UNCHANGED <<call, config, server, ctxDone, ep, i, lastErr, retErr, loc, requestChan,
                   errChan, worker, wg, closer, results, issued>>

\* error drain: one iteration of for err := range errChan (runner.go 250-258)
Drain ==
    /\ pc = "drain"
    /\ errChan.buf # <<>>
    /\ lastErr' = JoinErr(lastErr, Head(errChan.buf))
    /\ errChan' = [errChan EXCEPT !.buf = Tail(@)]
    /\ UNCHANGED <<call, config, server, ctxDone, pc, ep, result, i, retErr, loc, requestChan,
                   worker, wg, closer, results, issued>>

\* error drain: errChan is closed and drained, runConcurrent returns lastErr
\* (runner.go 260)
DrainEnd ==
    /\ pc = "drain"
    /\ errChan.buf = <<>>
    /\ errChan.closed
    /\ retErr' = lastErr
    /\ pc' = "returned"
    /\ UNCHANGED <<call, config, server, ctxDone, ep, result, i, lastErr, loc, requestChan,
                   errChan, worker, wg, closer, results, issued>>

\* variant: Run returns at the first endpoint whose path returned an error
FinishEndpointAbort ==
    /\ pc = "returned"
    /\ \E elapsed \in 1..MaxElapsed :
          results' = Append(results, AddResult(CloseResult(result, retErr, elapsed)))
    /\ ep' = ep + 1
    /\ pc' = IF retErr # NilErr THEN "done" ELSE "run"
    /\ UNCHANGED <<call, config, server, ctxDone, result, i, lastErr, retErr, loc, requestChan,
                   errChan, worker, wg, closer, issued>>

\* Run after runSingle / runConcurrent has returned (runner.go 57-77): the
\* endpoint's result is closed over the wall-clock time that elapsed between
\* the two time.Now() calls (some positive time) and added to the reporter;
\* the loop moves to the next endpoint
FinishEndpoint ==
    /\ pc = "returned"
    /\ \E elapsed \in 1..MaxElapsed :
          results' = Append(results, AddResult(CloseResult(result, retErr, elapsed)))
    /\ ep' = ep + 1
    /\ pc' = "run"
    /\ UNCHANGED <<call, config, server, ctxDone, result, i, lastErr, retErr, loc, requestChan,
                   errChan, worker, wg, closer, issued>>

\* Run after the last endpoint (runner.go 79): GenerateHTML builds the
\* report (reporter.go 231-232); Run returns unless prepareReport panics
GenerateReport ==
    /\ pc = "run"
    /\ ep > Len(config)
    /\ pc' = IF prepareReport(results).panic THEN "panic" ELSE "done"
    /\ UNCHANGED <<call, config, server, ctxDone, ep, result, i, lastErr, retErr, loc,
                   requestChan, errChan, worker, wg, closer, results, issued>>

Next ==
    \/ Cancel
    \/ StartSingle
    \/ SingleAttempt
    \/ StartConcurrent
    \/ \E w \in Workers : WorkerExit(w)
    \/ \E w \in Workers : WorkerCancelled(w)
    \/ \E w \in Workers : WorkerRequest(w)
    \/ \E w \in Workers : WorkerResponse(w)
    \/ \E w \in Workers : WorkerError(w)
    \/ \E w \in Workers : WorkerSendErr(w)
    \/ CloseRequestChan
    \/ CloseErrChan
    \/ Collect
    \/ CollectEnd
    \/ Drain
    \/ DrainEnd
    \/ FinishEndpoint
    \/ GenerateReport

Spec == Init /\ [][Next]_vars

\* the steps of the main goroutine, of the closing goroutine and of worker w
Main ==
    \/ StartSingle \/ SingleAttempt \/ StartConcurrent \/ Collect \/ CollectEnd
    \/ Drain \/ DrainEnd \/ FinishEndpoint \/ GenerateReport
Closer == CloseRequestChan \/ CloseErrChan
Worker(w) ==
    /\ w \in Workers
    /\ \/ WorkerExit(w) \/ WorkerCancelled(w) \/ WorkerRequest(w)
       \/ WorkerResponse(w) \/ WorkerError(w) \/ WorkerSendErr(w)

\* the Go scheduler runs every goroutine that can take a step, and every
\* HTTP exchange returns (http.Client.Timeout, runner.go 33); nothing obliges
\* the owner of the context to cancel it
\* For the progress properties the server gives a single response: which
\* goroutine can take which step depends on whether an exchange returned a
\* response or an error (and, in runSingle, on whether the attempt has to
\* be repeated, as it has after an error), not on the response's data.
FairInit == \E e \in Endpoints : InitWith(<<e>>, {Reply(200, BodyFoo, 1)})

FairSpec ==
    /\ FairInit /\ [][Next]_vars
    /\ WF_vars(Main)
    /\ WF_vars(Closer)
    /\ \A w \in 0..(MaxUsers - 1) : WF_vars(Worker(w))

\* Runs over configurations of up to MaxEndpoints endpoints, each a
\* single-path endpoint with one retry or a concurrent one with two users
\* and one request per user, named by their position and expecting the
\* title "foo" in a value check listed twice.  Every exchange ends in a
\* transport error or in a response that fails validation (wrong status,
\* too slow, another title), so every endpoint of these runs fails.
RunEndpoints == {Endpoint(0, 0, 1), Endpoint(2, 2, 0)}

RunConfigs == UNION {[1..n -> RunEndpoints] : n \in 1..MaxEndpoints}

RunInit ==
    \E c \in RunConfigs :
        InitWith([k \in 1..Len(c) |-> TwiceChecked(Named(c[k], ToString(k)))],
                 {Reply(500, BodySlow, 3)})

RunSpec == RunInit /\ [][Next]_vars

----------------------------------------------------------------------------
(***************************************************************************)
(* Validator.Validate on its own: one call with arguments from bounded     *)
(* sets                                                                    *)
(***************************************************************************)

\* a response body that decodes into the map `data`
ObjectBody(data) == [size |-> 1, object |-> TRUE, data |-> data]

\* the value checks an expectation is built from: on a key the bodies have
\* with a string, with an int, with a string of digits, with a large int,
\* and on a key no body has
CheckPool ==
    <<Check("title", StrVal("foo")), Check("title", IntVal(1)),
      Check("title", StrVal("1")), Check("id", IntVal(1000000)),
      Check("missing", StrVal("foo"))>>

\* the bodies a response carries: objects with the key title as a string or
\* as a number, with the key id, without keys, and a body that is no JSON
\* object
BodyPool ==
    <<ObjectBody([title |-> StrVal("foo")]),
      ObjectBody([title |-> StrVal("bar")]),
      ObjectBody([title |-> FloatVal(1)]),
      ObjectBody([title |-> StrVal("1"), id |-> FloatVal(1000000)]),
      ObjectBody([id |-> StrVal("1000000")]),
      ObjectBody(<<>>),      \* {} or null: both decode without error
      BodyErr>>

\* the sequences of at most MaxChecks value checks
CheckLists ==
    UNION {[1..n -> 1..Len(CheckPool)] : n \in 0..MaxChecks}

\* a Validator{maxDuration: 2, statusCode: 200} is about to validate a
\* response
ValidateInit ==
    /\ \E respStatus \in {200, 500}, duration \in {2, 3},
          b \in 1..Len(BodyPool), cs \in CheckLists :
          call = [done |-> FALSE,
                  statusCode |-> 200, maxDuration |-> 2,
                  respStatus |-> respStatus, body |-> BodyPool[b],
                  duration |-> duration,
                  valueChecks |-> [k \in 1..Len(cs) |-> CheckPool[cs[k]]],
                  result |-> [IsValid |-> FALSE, Errors |-> <<>>, Duration |-> 0]]
    /\ config = <<>>
    /\ server = {}
    /\ ctxDone = FALSE
    /\ pc = "done"
    /\ ep = 1
    /\ result = NoResult
    /\ i = 0
    /\ lastErr = NilErr
    /\ retErr = NilErr
    /\ loc = NoLocals
    /\ requestChan = NoChan
    /\ errChan = NoChan
    /\ worker = NoWorkers
    /\ wg = 0
    /\ closer = "idle"
    /\ results = <<>>
    /\ issued = NoWorkers

\* v.Validate(resp, body, duration, valueChecks) runs
DoValidate ==
    /\ ~call.done
    /\ call' = [call EXCEPT
                   !.done = TRUE,
                   !.result = Validate(call.statusCode, call.maxDuration,
                                       call.respStatus, call.body,
                                       call.duration, call.valueChecks)]
    /\ UNCHANGED <<config, server, ctxDone, pc, ep, result, i, lastErr, retErr,
                   loc, requestChan, errChan, worker, wg, closer, results, issued>>

ValidateSpec == ValidateInit /\ [][DoValidate]_vars

----------------------------------------------------------------------------
(***************************************************************************)
(* calculatePercentiles on its own: one call with a list from bounded sets *)
(***************************************************************************)

\* the lists of durations a call is made with: every list of at most
\* MaxTotal durations in 1..MaxElapsed + 1, and unsorted lists of up to
\* MaxSamples durations in 1..7
DurationLists ==
    UNION {[1..n -> 1..(MaxElapsed + 1)] : n \in 0..MaxTotal}
    \cup {[k \in 1..n |-> ((a * k + b) % 7) + 1] :
             n \in 0..MaxSamples, a \in 1..3, b \in 0..2}

\* the percentages of the five percentiles
Percentages == <<50, 75, 90, 95, 99>>

\* calculatePercentiles is about to be called with a list of durations
PercentileInit ==
    /\ \E ds \in DurationLists :
          call = [done |-> FALSE, durations |-> ds, panic |-> FALSE,
                  index |-> <<>>, percentiles |-> NoPercentiles]
    /\ config = <<>>
    /\ server = {}
    /\ ctxDone = FALSE
    /\ pc = "done"
    /\ ep = 1
    /\ result = NoResult
    /\ i = 0
    /\ lastErr = NilErr
    /\ retErr = NilErr
    /\ loc = NoLocals
    /\ requestChan = NoChan
    /\ errChan = NoChan
    /\ worker = NoWorkers
    /\ wg = 0
    /\ closer = "idle"
    /\ results = <<>>
    /\ issued = NoWorkers

\* calculatePercentiles(durations) runs (reporter.go 136-152): for a
\* non-empty list the five index expressions are evaluated; an index outside
\* 0..len-1 is a run-time panic (index out of range) and nothing is returned
DoPercentiles ==
    /\ ~call.done
    /\ LET n == Len(call.durations)
           index == IF n = 0 THEN <<>>
                    ELSE [k \in 1..Len(Percentages) |->
                             PercentileIndex(n, Percentages[k])]
           panic == \E k \in 1..Len(index) : index[k] \notin 0..(n - 1)
       IN  call' = [call EXCEPT
                       !.done = TRUE,
                       !.index = index,
                       !.panic = panic,
                       !.percentiles = IF panic THEN NoPercentiles
                                       ELSE calculatePercentiles(call.durations)]
    /\ UNCHANGED <<config, server, ctxDone, pc, ep, result, i, lastErr, retErr,
                   loc, requestChan, errChan, worker, wg, closer, results, issued>>

PercentileSpec == PercentileInit /\ [][DoPercentiles]_vars

----------------------------------------------------------------------------
(***************************************************************************)
(* Properties                                                              *)
(***************************************************************************)

RECURSIVE SumOver(_, _)
SumOver(f, S) ==
    IF S = {} THEN 0
    ELSE LET x == CHOOSE y \in S : TRUE IN f[x] + SumOver(f, S \ {x})

\* number of the entries of a sequence that satisfy Test
CountWhere(s, Test(_)) == Cardinality({k \in 1..Len(s) : Test(s[k])})

IsTransportError(d) == d.ErrorMessage # NoError
IsResponse(d) == d.ErrorMessage = NoError
IsValid(d) == d.Success
IsInvalidResponse(d) == d.ErrorMessage = NoError /\ ~d.Success

\* the main goroutine is inside runSingle, or has just returned from it
InSingle == pc \in {"single", "returned"} /\ endpoint.Users = 0
\* the main goroutine is inside runConcurrent, or has just returned from it
InConcurrent == pc \in {"collect", "drain", "returned"} /\ endpoint.Users > 0
SingleReturned == pc = "returned" /\ endpoint.Users = 0
ConcurrentReturned == pc = "returned" /\ endpoint.Users > 0

\* the quotient of the configured profile, written out from the configuration
Quota == endpoint.Total \div endpoint.Users

\* C1 as stated: once runConcurrent has returned, TotalRequests is
\* (total / users) * users and ConcurrentUsers is users.
C1_TotalIsQuota ==
    ConcurrentReturned =>
        /\ result.TotalRequests = Quota * endpoint.Users
        /\ result.ConcurrentUsers = endpoint.Users

\* C1 amended: once runConcurrent has returned, ConcurrentUsers is users and
\* TotalRequests is the number of requests the workers issued; that number
\* is (total / users) * users less the slots that workers stopped by the
\* cancellation did not start, so it is (total / users) * users whenever the
\* context was not cancelled.
C1_TotalIsIssued ==
    ConcurrentReturned =>
        /\ result.ConcurrentUsers = endpoint.Users
        /\ result.TotalRequests = SumOver(issued, Workers)
        /\ result.TotalRequests =
              Quota * endpoint.Users
              - SumOver([w \in Workers |-> Quota - worker[w].j], Workers)
        /\ result.TotalRequests <= Quota * endpoint.Users
        /\ ~ctxDone => result.TotalRequests = Quota * endpoint.Users

\* C1 witness: two users share three requests, the remainder is not issued
C1_Witness ==
    /\ ConcurrentReturned
    /\ ~ctxDone
    /\ endpoint.Users = 2 /\ endpoint.Total = 3
    /\ result.TotalRequests = 2

\* C2: runConcurrent runs exactly users workers; no worker ever issues more
\* than total / users requests, and when the context was not cancelled every
\* worker has issued exactly total / users requests once runConcurrent has
\* returned, whatever the requests' outcomes and the retry policy.
C2_WorkerQuota ==
    InConcurrent =>
        /\ Workers = 0..(endpoint.Users - 1)
        /\ \A w \in Workers : issued[w] <= Quota
        /\ (pc = "returned" /\ ~ctxDone) => \A w \in Workers : issued[w] = Quota

\* C2 witness: two workers with two requests each and a retry policy; the
\* outcomes include a transport error, a failed validation and a success
C2_Witness ==
    /\ ConcurrentReturned
    /\ ~ctxDone
    /\ endpoint.Users = 2 /\ Quota = 2 /\ endpoint.RetryCount > 0
    /\ \A w \in Workers : issued[w] = 2
    /\ \E k \in 1..Len(result.RequestDetails) : IsTransportError(result.RequestDetails[k])
    /\ \E k \in 1..Len(result.RequestDetails) : IsInvalidResponse(result.RequestDetails[k])
    /\ \E k \in 1..Len(result.RequestDetails) : IsValid(result.RequestDetails[k])

\* C3: runSingle never makes more than retry.count + 1 attempts, and has made
\* exactly retry.count + 1 when it returns without a valid attempt.
C3_AttemptBound ==
    InSingle =>
        /\ issued[0] <= endpoint.RetryCount + 1
        /\ (pc = "returned" /\ CountWhere(result.RequestDetails, IsValid) = 0)
              => issued[0] = endpoint.RetryCount + 1

\* C3 witness: retry.count = 2 and three failed attempts, a transport error
\* and a failed validation among them
C3_Witness ==
    /\ SingleReturned
    /\ endpoint.RetryCount = 2
    /\ issued[0] = 3
    /\ CountWhere(result.RequestDetails, IsTransportError) >= 1
    /\ CountWhere(result.RequestDetails, IsInvalidResponse) >= 1

\* C4: in runSingle a valid attempt is the last attempt: runSingle has
\* returned nil right after it, whatever retries remain; when the first
\* attempt is valid one request was made, SuccessCount is 1 and FailureCount 0.
C4_StopOnSuccess ==
    InSingle =>
        LET details == result.RequestDetails
        IN  /\ \A k \in 1..Len(details) :
                  details[k].Success =>
                      /\ k = Len(details)
                      /\ pc = "returned"
                      /\ retErr = NilErr
                      /\ issued[0] = k
            /\ (Len(details) >= 1 /\ details[1].Success) =>
                  /\ issued[0] = 1
                  /\ result.SuccessCount = 1
                  /\ result.FailureCount = 0

\* C4 witness: the first attempt is valid while two retries remain
C4_Witness ==
    /\ SingleReturned
    /\ endpoint.RetryCount = 2
    /\ Len(result.RequestDetails) = 1
    /\ result.RequestDetails[1].Success

CountersAddUp(r) ==
    /\ r.SuccessCount + r.FailureCount = r.TotalRequests
    /\ r.TotalRequests > 0 =>
          100 * r.FailureCount + 100 * r.SuccessCount = 100 * r.TotalRequests

\* C6: in every state, for the result being aggregated (single or
\* concurrent path) and for every result added to the reporter,
\* SuccessCount + FailureCount = TotalRequests.
C6_CountersAddUp ==
    /\ CountersAddUp(result)
    /\ \A k \in 1..Len(results) : CountersAddUp(results[k])

\* C6 witness: the collector has folded a success, a failed validation and a
\* transport error
C6_Witness ==
    /\ pc = "collect"
    /\ result.SuccessCount >= 1
    /\ CountWhere(result.RequestDetails, IsInvalidResponse) >= 1
    /\ CountWhere(result.RequestDetails, IsTransportError) >= 1

SortedPercentiles(p) ==
    p.P50 <= p.P75 /\ p.P75 <= p.P90 /\ p.P90 <= p.P95 /\ p.P95 <= p.P99

\* C7 as stated: every result added to the reporter that has a successful
\* outcome has P50 <= P75 <= P90 <= P95 <= P99 <= MaxLatency.
C7_PercentilesBelowMax ==
    \A k \in 1..Len(results) :
        results[k].SuccessCount > 0 =>
            /\ SortedPercentiles(results[k].Percentiles)
            /\ results[k].Percentiles.P99 <= results[k].MaxLatency

\* C8 as stated: a result added to the reporter with TotalRequests = 0 has
\* RequestsPerSecond = 0 and ErrorRate = 0.
C8_ZeroRates ==
    \A k \in 1..Len(results) :
        results[k].TotalRequests = 0 =>
            /\ results[k].RequestsPerSecond = F64(0)
            /\ results[k].ErrorRate = F64(0)

AllWorkersDone == \A w \in Workers : worker[w].pc = "done"

\* runConcurrent has returned with every worker gone and both channels closed
ConcurrentFinished ==
    /\ ConcurrentReturned
    /\ AllWorkersDone
    /\ requestChan.closed /\ errChan.closed

\* C9: whenever the context is cancelled while runConcurrent is running
\* (collecting or draining), runConcurrent eventually returns, with every
\* worker gone and both channels closed.
C9_CancelledRunReturns ==
    (ctxDone /\ pc \in {"collect", "drain"}) ~> ConcurrentFinished

\* C9 witness: runConcurrent has returned after a cancellation that found
\* one worker with its requests done and stopped the other one between its
\* first and its second request
C9_Witness ==
    /\ ConcurrentFinished
    /\ ctxDone
    /\ endpoint.Users = 2 /\ Quota = 2
    /\ \E w \in Workers : worker[w].j = 1 /\ issued[w] = 1
    /\ \E w \in Workers : worker[w].j = 2

IsCancellation(e) == e.msg = ErrCtx

\* C10 as stated: once runConcurrent has returned, the recorded outcomes
\* and the cancellation errors in the returned error together number
\* (total / users) * users: every slot that was not started is recorded as
\* one cancellation error.
C10_EverySlotRecorded ==
    ConcurrentReturned =>
        Len(result.RequestDetails) + CountWhere(retErr, IsCancellation)
            = Quota * endpoint.Users

ActiveWorkers == {w \in Workers : worker[w].pc # "done"}

ValidateDone == call.done /\ "result" \in DOMAIN call

\* number of the violations of one kind that name one path
EntriesOf(errs, kind, path) ==
    Cardinality({k \in 1..Len(errs) : errs[k].kind = kind /\ errs[k].path = path})

\* number of the value checks on one path that satisfy Test
ChecksOn(checks, path, Test(_)) ==
    Cardinality({k \in 1..Len(checks) : checks[k].Path = path /\ Test(checks[k])})

AnyCheck(c) == TRUE

IsNumber(v) == v.t \in {"int", "float"}

\* the same dynamic type and the same value
Is(a, b) == a.t = b.t /\ a.v = b.v

\* the same string, or the same number
EqualValue(a, b) ==
    \/ a.t = "str" /\ b.t = "str" /\ a.v = b.v
    \/ IsNumber(a) /\ IsNumber(b) /\ a.v = b.v

\* two strings or two numbers that are not the same
DifferentValue(a, b) ==
    \/ a.t = "str" /\ b.t = "str" /\ a.v # b.v
    \/ IsNumber(a) /\ IsNumber(b) /\ a.v # b.v

\* the paths the checks of the call name
CheckedPaths == {call.valueChecks[k].Path : k \in 1..Len(call.valueChecks)}

\* C14 as stated: when the body decodes into an object, the checks on a key
\* the object lacks yield one "path not found" violation each; the checks on
\* a key it has yield no violation where the expected value equals the
\* actual one (the same string, the same number) and one violation naming
\* the path where the two are different strings or different numbers.
C14_ViolationPerCheck ==
    (ValidateDone /\ call.body.object) =>
        LET data == call.body.data
            errs == call.result.Errors
            Equal(c) == EqualValue(c.Value, data[c.Path])
            Different(c) == DifferentValue(c.Value, data[c.Path])
        IN  \A p \in CheckedPaths :
                IF p \notin DOMAIN data
                THEN /\ EntriesOf(errs, "notfound", p) = ChecksOn(call.valueChecks, p, AnyCheck)
                     /\ EntriesOf(errs, "mismatch", p) = 0
                ELSE /\ EntriesOf(errs, "notfound", p) = 0
                     /\ EntriesOf(errs, "mismatch", p) >= ChecksOn(call.valueChecks, p, Different)
                     /\ EntriesOf(errs, "mismatch", p)
                           <= ChecksOn(call.valueChecks, p, AnyCheck)
                              - ChecksOn(call.valueChecks, p, Equal)

IsNotFound(m) == m.kind = "notfound"
IsMismatch(m) == m.kind = "mismatch"
IsUnmarshal(m) == m.kind = "unmarshal"
IsValueEntry(m) == m.kind \in {"unmarshal", "notfound", "mismatch"}

\* C15: Validate reports the status check, the duration check and the value
\* checks in one call: its list holds, in this order, one entry if the
\* status is not the expected one, one entry if the duration exceeds
\* maxDuration, and the entries of the value checks: none without checks,
\* one if the body does not decode, else one per check on a key the body
\* lacks and at most one per other check; IsValid is true exactly when the
\* list is empty.
C15_AllChecksReported ==
    ValidateDone =>
        LET errs == call.result.Errors
            checks == call.valueChecks
            st == IF call.respStatus # call.statusCode THEN 1 ELSE 0
            tm == IF call.duration > call.maxDuration THEN 1 ELSE 0
            absent == Cardinality({k \in 1..Len(checks) :
                          checks[k].Path \notin DOMAIN call.body.data})
            values == Len(errs) - st - tm
        IN  /\ Len(errs) >= st + tm
            /\ st = 1 => errs[1].kind = "status"
            /\ tm = 1 => errs[st + 1].kind = "time"
            /\ \A k \in (st + tm + 1)..Len(errs) : IsValueEntry(errs[k])
            /\ Len(checks) = 0 => values = 0
            /\ (Len(checks) > 0 /\ ~call.body.object) =>
                  values = 1 /\ errs[Len(errs)].kind = "unmarshal"
            /\ (Len(checks) > 0 /\ call.body.object) =>
                  /\ CountWhere(errs, IsNotFound) = absent
                  /\ values >= absent
                  /\ values <= Len(checks)
                  /\ CountWhere(errs, IsUnmarshal) = 0
            /\ call.result.IsValid <=> (Len(errs) = 0)

\* C15 witness: one call reports a wrong status, a slow response, a missing
\* key and a mismatching value
C15_Witness ==
    /\ ValidateDone
    /\ Len(call.result.Errors) = 4
    /\ call.result.Errors[1].kind = "status"
    /\ call.result.Errors[2].kind = "time"
    /\ CountWhere(call.result.Errors, IsNotFound) = 1
    /\ CountWhere(call.result.Errors, IsMismatch) = 1
    /\ ~call.result.IsValid

C17_NoRequestAfterCancel ==
    [][(ctxDone /\ pc \in {"collect", "drain"}) =>
          \A w \in Workers : issued'[w] = issued[w]]_vars

\* C17 witness: the context is cancelled, a worker that had issued its first
\* request and had another one to make has left its loop
C17_Witness ==
    /\ ctxDone
    /\ pc = "collect"
    /\ \E w \in Workers :
          /\ worker[w].pc = "done"
          /\ issued[w] = 1
          /\ worker[w].j = 1
          /\ Quota > 1

\* the details recorded under one request ID
DetailsOf(id) ==
    {k \in 1..Len(result.RequestDetails) : result.RequestDetails[k].ID = id}

\* C18: once runConcurrent has returned, RequestDetails holds exactly one
\* detail for each request a worker started (under that request's ID) and
\* nothing else.
C18_OneDetailPerRequest ==
    ConcurrentReturned =>
        /\ Len(result.RequestDetails) = SumOver(issued, Workers)
        /\ \A w \in Workers : \A j \in 0..(issued[w] - 1) :
               Cardinality(DetailsOf(requestID(w, j, endpoint))) = 1

\* C18 witness: runConcurrent has returned with the detail of a request
\* that was in flight when the context was cancelled
C18_Witness ==
    /\ ConcurrentReturned
    /\ ctxDone
    /\ \E k \in 1..Len(result.RequestDetails) :
          result.RequestDetails[k].ErrorMessage = ErrRequestCanceled
    /\ \E k \in 1..Len(result.RequestDetails) :
          IsResponse(result.RequestDetails[k])

\* the errors the workers have sent or will send on errChan: one per request
\* that ended in an error, one per worker stopped by the cancellation
ErrorsSent ==
    CountWhere(result.RequestDetails, IsTransportError)
    + Cardinality({w \in Workers : worker[w].j < Quota})

\* C19: a channel is closed only when every worker has left its goroutine;
\* so the collector loop ends only with the detail of every started request
\* folded, and runConcurrent returns only with every error joined.
C19_ClosedAfterWorkers ==
    /\ (requestChan.closed \/ errChan.closed) =>
          /\ AllWorkersDone
          /\ wg = 0
    /\ (pc \in {"drain", "returned"} /\ endpoint.Users > 0) =>
          /\ requestChan.closed
          /\ Len(result.RequestDetails) = SumOver(issued, Workers)
    /\ ConcurrentReturned =>
          /\ errChan.closed
          /\ Len(retErr) = ErrorsSent

\* C19 witness: both channels are closed after two workers have sent the
\* details of two requests each and an error
C19_Witness ==
    /\ ConcurrentReturned
    /\ requestChan.closed /\ errChan.closed
    /\ endpoint.Users = 2
    /\ Len(result.RequestDetails) = 4
    /\ Len(retErr) >= 1

\* C20 as stated: once the context is cancelled the main goroutine inside
\* runConcurrent is never blocked: it can take a step of its own whatever
\* the workers and the closing goroutine do.
C20_WaitCancellable ==
    (ctxDone /\ pc \in {"collect", "drain"}) => ENABLED Main

IsCancelled(d) == d.ErrorMessage = ErrRequestCanceled
IsFailed(d) == ~d.Success

\* C21 as stated: in runSingle an attempt that failed because the context
\* was cancelled is the last attempt.
C21_CancellationNotRetried ==
    InSingle =>
        \A k \in 1..Len(result.RequestDetails) :
            IsCancelled(result.RequestDetails[k]) => k = Len(result.RequestDetails)

\* C22 as stated: once runSingle or runConcurrent has returned, every
\* recorded outcome is counted in TotalRequests, every failed one in
\* FailureCount, and every transport error under status code 0.
C22_FailuresCounted ==
    (SingleReturned \/ ConcurrentReturned) =>
        /\ result.TotalRequests = Len(result.RequestDetails)
        /\ result.FailureCount = CountWhere(result.RequestDetails, IsFailed)
        /\ Count(result.StatusCodes, 0)
              = CountWhere(result.RequestDetails, IsTransportError)

\* a detail with an ErrorMessage has no status, no size, no success and no
\* validation errors
CarriesNothing(d) ==
    IsTransportError(d) =>
        /\ d.StatusCode = 0
        /\ d.ResponseSize = 0
        /\ ~d.Success
        /\ d.ValidationErrors = <<>>

AllCarryNothing(details) == \A k \in 1..Len(details) : CarriesNothing(details[k])

\* C23: every detail whose ErrorMessage is set, in requestChan, in the
\* result being aggregated and in the results added to the reporter, has
\* StatusCode 0, ResponseSize 0, Success false and no validation errors.
C23_ErrorsCarryNothing ==
    /\ AllCarryNothing(requestChan.buf)
    /\ AllCarryNothing(result.RequestDetails)
    /\ \A k \in 1..Len(results) : AllCarryNothing(results[k].RequestDetails)

\* C23 witness: runConcurrent has returned with the detail of a failed
\* exchange, of a cancelled exchange and of a response that failed validation
C23_Witness ==
    /\ ConcurrentReturned
    /\ \E k \in 1..Len(result.RequestDetails) :
          result.RequestDetails[k].ErrorMessage = ErrTransport
    /\ \E k \in 1..Len(result.RequestDetails) :
          IsCancelled(result.RequestDetails[k])
    /\ \E k \in 1..Len(result.RequestDetails) :
          IsInvalidResponse(result.RequestDetails[k])

\* the durations of a sequence of details
Durations(details) == [k \in 1..Len(details) |-> details[k].Duration]

\* C24 as stated: the percentiles of every result added to the reporter are
\* those of the durations of its successful outcomes.
C24_PercentilesOverSuccesses ==
    \A k \in 1..Len(results) :
        results[k].Percentiles =
            calculatePercentiles(Durations(SelectSeq(results[k].RequestDetails, IsValid)))

\* the latencies of a result and of the locals they are computed from
Latencies(r, l) ==
    <<r.MinLatency, r.MaxLatency, r.AverageLatency,
      l.minLatency, l.maxLatency, l.totalLatency>>

\* the main goroutine folds a failed outcome into result in this step
FoldsFailure ==
    /\ pc \in {"single", "collect"}
    /\ Len(result'.RequestDetails) = Len(result.RequestDetails) + 1
    /\ IsFailed(result'.RequestDetails[Len(result'.RequestDetails)])

\* MinLatency, MaxLatency of r are those of the successful durations (0
\* without any)
ExtremesOfSuccesses(r) ==
    LET ds == Durations(SelectSeq(r.RequestDetails, IsValid))
    IN  /\ r.MinLatency = IF ds = <<>> THEN 0 ELSE SeqMin(ds)
        /\ r.MaxLatency = SeqMax0(ds)

\* C25: a step that folds a failed outcome leaves MinLatency, MaxLatency,
\* AverageLatency and the locals they are computed from as they were; once
\* the path has returned MinLatency and MaxLatency are the extremes of the
\* successful outcomes' durations, and AverageLatency is their mean in the
\* concurrent path (runSingle never assigns it).
C25_FailuresLeaveLatencies ==
    /\ [][FoldsFailure => Latencies(result', loc') = Latencies(result, loc)]_vars
    /\ [](SingleReturned => ExtremesOfSuccesses(result) /\ result.AverageLatency = 0)
    /\ [](ConcurrentReturned =>
            /\ ExtremesOfSuccesses(result)
            /\ result.AverageLatency =
                  IF result.SuccessCount = 0 THEN 0
                  ELSE SumSeq(Durations(SelectSeq(result.RequestDetails, IsValid)))
                       \div result.SuccessCount)

\* C25 witness: the collector has folded a success that took 1 and then a
\* failed outcome that took 3
C25_Witness ==
    /\ pc = "collect"
    /\ Len(result.RequestDetails) = 2
    /\ result.RequestDetails[1].Success
    /\ result.RequestDetails[1].Duration = 1
    /\ IsFailed(result.RequestDetails[2])
    /\ result.RequestDetails[2].Duration = 3
    /\ loc.maxLatency = 1

RECURSIVE InsertByID(_, _)
InsertByID(d, s) ==
    IF s = <<>> THEN <<d>>
    ELSE IF d.ID <= Head(s).ID THEN <<d>> \o s
    ELSE <<Head(s)>> \o InsertByID(d, Tail(s))

\* the details in the order of their request IDs
RECURSIVE SortByID(_)
SortByID(s) == IF s = <<>> THEN <<>> ELSE InsertByID(Head(s), SortByID(Tail(s)))

\* the collector loop over a sequence of details, from (r, l)
RECURSIVE CollectAll(_, _, _)
CollectAll(r, l, details) ==
    IF details = <<>> THEN Finalize(r, l)
    ELSE CollectAll(FoldConcurrent(r, Head(details)),
                    FoldLocals(l, Head(details)), Tail(details))

\* the aggregates the arrival order must not change
Aggregates(r) ==
    <<r.TotalRequests, r.SuccessCount, r.FailureCount, r.StatusCodes,
      r.ValidationFailures, r.BytesTransferred, r.MinLatency, r.MaxLatency,
      r.AverageLatency>>

C27_PauseBetweenRequests ==
    InConcurrent =>
        \A w \in Workers :
            /\ issued[w] = 0 => worker[w].slept = 0
            /\ issued[w] >= 1 => worker[w].slept >= issued[w] - 1

IsStatus(m) == m.kind = "status"
IsTime(m) == m.kind = "time"

Sizes(details) == [k \in 1..Len(details) |-> details[k].ResponseSize]

\* C29 as stated: the ResponseSizes of every result added to the reporter
\* are the minimum, the maximum and the mean of the sizes of its outcomes
\* that are responses.
C29_SizesOverResponses ==
    \A k \in 1..Len(results) :
        LET sizes == Sizes(SelectSeq(results[k].RequestDetails, IsResponse))
        IN  Len(sizes) > 0 =>
                /\ results[k].ResponseSizes.Min = SeqMin(sizes)
                /\ results[k].ResponseSizes.Max = SeqMax0(sizes)
                /\ results[k].ResponseSizes.Avg = SumSeq(sizes) \div Len(sizes)

\* the violation m is in the list errs
Lists(errs, m) == \E k \in 1..Len(errs) : errs[k] = m

\* C30 as stated: in every result added to the reporter the count of a
\* violation string is the number of failed outcomes that list it.
C30_OncePerDistinctString ==
    \A k \in 1..Len(results) :
        \A m \in BagToSet(results[k].ValidationFailures) :
            Count(results[k].ValidationFailures, m) =
                Cardinality({n \in 1..Len(results[k].RequestDetails) :
                    /\ IsFailed(results[k].RequestDetails[n])
                    /\ Lists(results[k].RequestDetails[n].ValidationErrors, m)})

\* the error runSingle returns after a last attempt with the detail d
ErrorOfAttempt(d) ==
    IF IsTransportError(d) THEN Err(d.ErrorMessage)
    ELSE ValidationFailed(d.ValidationErrors)

\* C31: for a single-path endpoint, at the return of runSingle and in the
\* result added to the reporter: the returned error is nil and Errors is
\* empty exactly when the last attempt made was valid; otherwise the error
\* is that of the last attempt alone (its transport error, or the validation
\* failure with that attempt's violations) and Errors holds it as its only
\* entry.
C31_OnlyFinalError ==
    /\ SingleReturned =>
          LET ds == result.RequestDetails
          IN  /\ Len(ds) >= 1
              /\ result.Errors = <<>>
              /\ (retErr = NilErr) <=> ds[Len(ds)].Success
              /\ ~ds[Len(ds)].Success => retErr = ErrorOfAttempt(ds[Len(ds)])
    /\ \A k \in 1..Len(results) :
          ~results[k].IsConcurrent =>
              LET ds == results[k].RequestDetails
              IN  /\ Len(ds) >= 1
                  /\ (results[k].Errors = <<>>) <=> ds[Len(ds)].Success
                  /\ ~ds[Len(ds)].Success =>
                        results[k].Errors = <<ErrorOfAttempt(ds[Len(ds)])>>

\* C31 witness: the reporter holds the result of a single-path endpoint
\* whose three attempts ended in a failed validation, a transport error and
\* a failed validation again; Errors holds one entry
C31_Witness ==
    /\ Len(results) = 1
    /\ ~results[1].IsConcurrent
    /\ Len(results[1].RequestDetails) = 3
    /\ IsInvalidResponse(results[1].RequestDetails[1])
    /\ IsTransportError(results[1].RequestDetails[2])
    /\ IsInvalidResponse(results[1].RequestDetails[3])
    /\ Len(results[1].Errors) = 1

\* the retry loop of runSingle over a sequence of details, from r
RECURSIVE AttemptAll(_, _)
AttemptAll(r, details) ==
    IF details = <<>> THEN r
    ELSE AttemptAll(IF IsTransportError(Head(details))
                    THEN [r EXCEPT !.RequestDetails = Append(@, Head(details))]
                    ELSE FoldSingle(r, Head(details)),
                    Tail(details))

\* the counters, histograms and latencies of r are those its endpoint e
\* yields from the details of r alone
OwnAggregates(r, e) ==
    Aggregates(r) =
        Aggregates(IF e.Users > 0
                   THEN CollectAll(NewResult(e), NoLocals, r.RequestDetails)
                   ELSE AttemptAll(NewResult(e), r.RequestDetails))

\* every error joined in an entry of Errors is the context's error or the
\* error of one of the details of r
OwnErrors(r) ==
    \A n \in 1..Len(r.Errors) : \A m \in 1..Len(r.Errors[n]) :
        \/ r.Errors[n][m].msg = ErrCtx
        \/ \E k \in 1..Len(r.RequestDetails) :
              \/ r.Errors[n][m].msg = r.RequestDetails[k].ErrorMessage
              \/ /\ r.Errors[n][m].msg = "validation failed"
                 /\ r.Errors[n][m].errs = r.RequestDetails[k].ValidationErrors

\* C32: no step changes a result already added to the reporter; when the
\* path of an endpoint has returned, the details of its result are those of
\* the requests issued for this endpoint and its aggregates are computed
\* from them alone; every result in the reporter has the aggregates and the
\* errors of its own details.
C32_EarlierSummariesKept ==
    /\ [][/\ Len(results') >= Len(results)
          /\ \A k \in 1..Len(results) : results'[k] = results[k]]_vars
    /\ [](pc = "returned" =>
            /\ Len(result.RequestDetails) = SumOver(issued, DOMAIN issued)
            /\ OwnAggregates(result, endpoint))
    /\ [](\A k \in 1..Len(results) :
            /\ OwnAggregates(results[k], config[k])
            /\ OwnErrors(results[k])
            /\ Len(results[k].Errors) <= 1)

\* C32 witness: the second endpoint has returned after a cancellation that
\* came while it was processed, with a failure from before it and one from
\* after it; the reporter holds the result of the first endpoint, which failed
C32_Witness ==
    /\ ep = 2
    /\ pc = "returned"
    /\ ctxDone
    /\ Len(results) = 1
    /\ results[1].FailureCount > 0
    /\ results[1].Errors # <<>>
    /\ \E k \in 1..Len(result.RequestDetails) : IsCancelled(result.RequestDetails[k])
    /\ \E k \in 1..Len(result.RequestDetails) : ~IsCancelled(result.RequestDetails[k])

\* the path of some endpoint has been entered
Processing == pc \in {"single", "collect", "drain", "returned"}

\* C33 as stated: with a configuration that Config.Validate rejects because
\* an endpoint has users > 0 and total = 0, Run processes no endpoint: no
\* path is entered, no request is issued and no result is added.
C33_FailsFast ==
    ConfigValidate(config) = "concurrent users set but total requests not specified" =>
        /\ ~Processing
        /\ results = <<>>
        /\ SumOver(issued, DOMAIN issued) = 0

\* the part of C33 that holds: no request is issued for an endpoint with
\* users > 0 and total = 0
C33_NoRequestIssued ==
    (ep <= Len(config) /\ endpoint.Users > 0 /\ endpoint.Total = 0) =>
        SumOver(issued, DOMAIN issued) = 0

\* C34: while runConcurrent runs, requestChan and errChan each buffer at
\* most concurrent.total items, and every worker that is at a send (of a
\* detail after its request, of the error of a failed request, of the
\* context's error when it would find the context cancelled) finds room in
\* the channel, whatever the collector has received so far.
C34_SendsNeverBlock ==
    InConcurrent =>
        /\ Len(requestChan.buf) <= endpoint.Total
        /\ Len(errChan.buf) <= endpoint.Total
        /\ \A w \in Workers :
              /\ worker[w].pc = "inflight" => CanSend(requestChan)
              /\ worker[w].pc = "senderr" => CanSend(errChan)
              /\ (worker[w].pc = "loop" /\ worker[w].j < Quota) => CanSend(errChan)

\* C34 witness: two workers have sent the details and the errors of all four
\* requests before the collector has received anything; requestChan is not
\* closed yet, and both channels hold concurrent.total items
C34_Witness ==
    /\ pc = "collect"
    /\ endpoint.Users = 2 /\ endpoint.Total = 4
    /\ ~requestChan.closed
    /\ Len(requestChan.buf) = 4
    /\ Len(errChan.buf) = 4
    /\ AllWorkersDone

\* the counts of the status-code histogram of r sum to its TotalRequests
HistogramAddsUp(r) == BagCardinality(r.StatusCodes) = r.TotalRequests

\* C35: in every state, for the result being aggregated (in runSingle or by
\* the collector of runConcurrent) and for every result added to the
\* reporter, the counts of StatusCodes sum to TotalRequests.
C35_HistogramAddsUp ==
    /\ HistogramAddsUp(result)
    /\ \A k \in 1..Len(results) : HistogramAddsUp(results[k])

\* C35 witness: the collector has folded a transport error (status 0), a
\* response with status 200 and one with status 500
C35_Witness ==
    /\ pc = "collect"
    /\ result.TotalRequests = 3
    /\ Count(result.StatusCodes, 0) = 1
    /\ Count(result.StatusCodes, 200) = 1
    /\ Count(result.StatusCodes, 500) = 1

\* C36 as stated: every result added to the reporter that has a successful
\* outcome has MinLatency <= AverageLatency <= MaxLatency, and its MinLatency
\* is the smallest duration of its successful outcomes.
C36_LatenciesOrdered ==
    \A k \in 1..Len(results) :
        results[k].SuccessCount > 0 =>
            /\ results[k].MinLatency <= results[k].AverageLatency
            /\ results[k].AverageLatency <= results[k].MaxLatency
            /\ results[k].MinLatency =
                  SeqMin(Durations(SelectSeq(results[k].RequestDetails, IsValid)))

\* the part of C36 that holds: the same for the results of concurrent
\* endpoints
C36_ConcurrentLatenciesOrdered ==
    \A k \in 1..Len(results) :
        (results[k].IsConcurrent /\ results[k].SuccessCount > 0) =>
            /\ results[k].MinLatency <= results[k].AverageLatency
            /\ results[k].AverageLatency <= results[k].MaxLatency
            /\ results[k].MinLatency =
                  SeqMin(Durations(SelectSeq(results[k].RequestDetails, IsValid)))

\* C37 as stated: building the report never panics: whatever results the
\* reporter holds when Run has processed its last endpoint, prepareReport
\* returns.
C37_ReportCompletes ==
    /\ pc # "panic"
    /\ (pc = "run" /\ ep > Len(config)) => ~prepareReport(results).panic

\* the details carry pairwise distinct IDs
DistinctIDs(details) ==
    \A a, b \in 1..Len(details) : a # b => details[a].ID # details[b].ID

\* the IDs of the details lie in 1..users * (total / users)
IDsInRange(details, e) ==
    \A k \in 1..Len(details) :
        details[k].ID \in 1..(e.Users * requestsPerUser(e))

\* C38 as stated: the details of the result being aggregated, in either
\* path, carry pairwise distinct IDs, which in the concurrent path lie in
\* 1..users * requestsPerUser.
C38_DistinctIDs ==
    /\ InSingle => DistinctIDs(result.RequestDetails)
    /\ InConcurrent =>
          /\ DistinctIDs(requestChan.buf \o result.RequestDetails)
          /\ IDsInRange(requestChan.buf \o result.RequestDetails, endpoint)

\* the part of C38 that holds: the concurrent path
C38_ConcurrentDistinctIDs ==
    InConcurrent =>
        /\ DistinctIDs(requestChan.buf \o result.RequestDetails)
        /\ IDsInRange(requestChan.buf \o result.RequestDetails, endpoint)

PercentilesDone == call.done /\ "percentiles" \in DOMAIN call

\* C39: a call of calculatePercentiles with a non-empty list of n durations
\* evaluates five indices, floor(n * f) for f = 0.50, 0.75, 0.90, 0.95, 0.99,
\* each in 0..n-1 and none smaller than the one before, does not panic and
\* returns the entries of the sorted list at these indices; a call with an
\* empty list returns all-zero percentiles.
C39_IndicesInRange ==
    PercentilesDone =>
        LET n == Len(call.durations)
            sorted == SortDurations(call.durations)
        IN  /\ ~call.panic
            /\ n = 0 => call.index = <<>> /\ call.percentiles = NoPercentiles
            /\ n > 0 =>
                  /\ Len(call.index) = 5
                  /\ \A k \in 1..5 :
                        /\ call.index[k] \in 0..(n - 1)
                        /\ 100 * call.index[k] <= n * Percentages[k]
                        /\ n * Percentages[k] < 100 * (call.index[k] + 1)
                        /\ k > 1 => call.index[k - 1] <= call.index[k]
                  /\ call.percentiles =
                        [P50 |-> sorted[call.index[1] + 1],
                         P75 |-> sorted[call.index[2] + 1],
                         P90 |-> sorted[call.index[3] + 1],
                         P95 |-> sorted[call.index[4] + 1],
                         P99 |-> sorted[call.index[5] + 1]]

\* C39 witness: a call with an unsorted list of 20 durations has returned;
\* the indices are 10, 15, 18, 19 and 19, the last entry of the list
C39_Witness ==
    /\ PercentilesDone
    /\ Len(call.durations) = 20
    /\ call.durations # SortDurations(call.durations)
    /\ call.index = <<10, 15, 18, 19, 19>>
    /\ call.percentiles.P99 = SortDurations(call.durations)[20]

\* a call with an empty list has returned all-zero percentiles
C39_EmptyWitness ==
    /\ PercentilesDone
    /\ call.durations = <<>>
    /\ call.percentiles = NoPercentiles

====
